---- MODULE Spec2Model ----
(***************************************************************************)
(* Model of custom_components/huawei_mesh_router/button.py: the reboot     *)
(* button platform of the Huawei mesh router integration.                  *)
(*                                                                         *)
(* State: the entities registered with the host (async_add_entities), the   *)
(* known_buttons dictionary of async_setup_entry, the listener registered   *)
(* on the coordinator, the coordinator's device set and online statuses,    *)
(* and the position of a press() call.                                      *)
(***************************************************************************)
EXTENDS Integers, Sequences, FiniteSets, TLC

VARIABLES
    phase,          \* "new" | "loaded" | "unloaded" | "setup_failed"
    listeners,      \* callbacks registered through coordinator.async_add_listener
    entities,       \* sequence of the entities handed to async_add_entities
    known_buttons,  \* known_buttons: mac -> index in entities
    devices,        \* records <<mac, router>> the watcher hands to on_router_added
    online,         \* addresses coordinator.is_router_online reports online
    notified,       \* flips on every coordinator update notification
    exc,            \* address whose registration raised in the last notification
    lastAvail,      \* last result of the available property
    pressPc,        \* position of the press() call
    pressEntity,    \* entity being pressed
    execCalls,      \* coordinator.execute_action calls of the current press
    uidIn,          \* inputs of _generate_button_unique_id
    uidOut          \* _attr_unique_id of the entity built from uidIn

vars == <<phase, listeners, entities, known_buttons, devices, online, notified,
          exc, lastAvail, pressPc, pressEntity, execCalls, uidIn, uidOut>>

discoveryVars == <<phase, listeners, entities, known_buttons, devices, notified, exc>>
pressVars == <<pressPc, pressEntity, execCalls>>
uidVars == <<uidIn, uidOut>>

----------------------------------------------------------------------------
(* Bounds *)

NumMacs == 2
MaxLen == 2

----------------------------------------------------------------------------
(* Values *)

None == "None"
EmptyMac == ""

ACTION_REBOOT == "reboot"

AllMacs == <<"AA:01", "BB:02", "CC:03", "DD:04">>

MACS == {AllMacs[i] : i \in 1..NumMacs}

NoRouter == [absent |-> TRUE]

ConnectedDevice(m) == [mac |-> m]

WellFormed(rec) == rec[1] \in MACS /\ rec[2] = ConnectedDevice(rec[1])

WellFormedRecords == {<<m, ConnectedDevice(m)>> : m \in MACS}

MalformedRecords ==
    {<<m, NoRouter>> : m \in MACS} \cup {<<EmptyMac, ConnectedDevice(EmptyMac)>>}

----------------------------------------------------------------------------
(* Entities *)

HuaweiButton(action_name, device_mac) ==
    [action_name |-> action_name, device_mac |-> device_mac]

HuaweiRebootButton(device) ==
    HuaweiButton(ACTION_REBOOT, IF device # NoRouter THEN device.mac ELSE None)

\* setup that also builds a button for a device the coordinator already knows
SetupButtons_eager(devs) ==
    <<HuaweiRebootButton(NoRouter)>>
        \o (IF devs = {} THEN <<>> ELSE <<HuaweiRebootButton((CHOOSE r \in devs : TRUE)[2])>>)

SetupButtons(devs) == <<HuaweiRebootButton(NoRouter)>>


----------------------------------------------------------------------------
(* Discovery: async_setup_entry and its two callbacks *)

EmptyDict == [k \in {} |-> 0]

\* the assignment left out
DictSet_forget(d, k, v) == d

\* the dictionary rebuilt around the new entry
DictSet_fresh(d, k, v) == [x \in {k} |-> v]

\* known_buttons[mac] = entity
DictSet(d, k, v) == [x \in DOMAIN d \cup {k} |-> IF x = k THEN v ELSE d[x]]

\* one call of async_add_entities, which may raise
async_add_entities(st, new, raises) ==
    IF raises THEN st ELSE [st EXCEPT !.entities = st.entities \o new]

\* the lookup left out
NotKnown_always(kb, mac) == TRUE

\* if not known_buttons.get(mac): an entity object is always truthy
NotKnown(kb, mac) == mac \notin DOMAIN kb

\* the entity recorded before it is registered
on_router_added_record_first(st, mac, router, raises) ==
    IF mac \notin DOMAIN st.known_buttons
    THEN LET entity == HuaweiRebootButton(router)
             recorded == [st EXCEPT !.known_buttons =
                              DictSet(st.known_buttons, mac, Len(st.entities) + 1)]
         IN IF raises
            THEN [recorded EXCEPT !.exc = mac]
            ELSE [recorded EXCEPT !.entities = Append(st.entities, entity)]
    ELSE st

\* raises: the host's async_add_entities raises for this entity; the exception
\* leaves on_router_added before known_buttons[mac] is assigned
on_router_added(st, mac, router, raises) ==
    IF NotKnown(st.known_buttons, mac)
    THEN LET entity == HuaweiRebootButton(router)
             added == async_add_entities(st, <<entity>>, raises)
         IN IF raises
            THEN [added EXCEPT !.exc = mac]
            ELSE [added EXCEPT
                     !.known_buttons = DictSet(st.known_buttons, mac, Len(added.entities))]
    ELSE st

\* RoutersWatcher.look_for_changes: hands every device record of the coordinator
\* to the callback, in some order; an exception ends the walk
RECURSIVE look_for_changes(_, _, _)
look_for_changes(st, records, raising) ==
    IF records = <<>> \/ st.exc # None
    THEN st
    ELSE LET r == Head(records)
         IN look_for_changes(on_router_added(st, r[1], r[2], r[1] \in raising),
                             Tail(records), raising)

Orderings(S) ==
    {f \in [1..Cardinality(S) -> S] : \A i, j \in 1..Cardinality(S) : i # j => f[i] # f[j]}

coordinator_updated(raising) ==
    \E order \in Orderings(devices) :
        LET st == look_for_changes(
                      [entities |-> entities, known_buttons |-> known_buttons, exc |-> None],
                      order, raising)
        IN /\ entities' = st.entities
           /\ known_buttons' = st.known_buttons
           /\ exc' = st.exc

\* coordinator.async_add_listener(coordinator_updated)
async_add_listener(ls) == ls \cup {"coordinator_updated"}

\* the subscription never released
remove_listener_noop(ls) == ls

\* the remover handed to config_entry.async_on_unload
remove_listener(ls) == ls \ {"coordinator_updated"}

\* async_setup_entry, the host's registration succeeding
async_setup_entry ==
    /\ phase = "new"
    /\ LET st == async_add_entities([entities |-> entities], SetupButtons(devices), FALSE)
       IN entities' = st.entities
    /\ known_buttons' = EmptyDict
    /\ listeners' = async_add_listener(listeners)
    /\ phase' = "loaded"
    /\ UNCHANGED <<devices, online, notified, exc, lastAvail, pressVars, uidVars>>

\* async_setup_entry, async_add_entities raising at line 75: nothing after it runs
async_setup_entry_raises ==
    /\ phase = "new"
    /\ phase' = "setup_failed"
    /\ UNCHANGED <<listeners, entities, known_buttons, devices, online, notified, exc,
                   lastAvail, pressVars, uidVars>>

\* the entry is unloaded: the callbacks given to async_on_unload run
Unload ==
    /\ phase = "loaded"
    /\ listeners' = remove_listener(listeners)
    /\ phase' = "unloaded"
    /\ UNCHANGED <<entities, known_buttons, devices, online, notified, exc,
                   lastAvail, pressVars, uidVars>>

\* the coordinator notifies its listeners of an update
Notify(raising) ==
    /\ notified' = ~notified
    /\ IF "coordinator_updated" \in listeners
       THEN coordinator_updated(raising)
       ELSE UNCHANGED <<entities, known_buttons, exc>>
    /\ UNCHANGED <<phase, listeners, devices, online, lastAvail, pressVars, uidVars>>

CoordinatorUpdate == Notify({})

CoordinatorUpdateRaising ==
    \E raising \in SUBSET {r[1] : r \in devices} : raising # {} /\ Notify(raising)

\* the coordinator's device set changes
DeviceAppears ==
    /\ \E rec \in WellFormedRecords \ devices : devices' = devices \cup {rec}
    /\ UNCHANGED <<phase, listeners, entities, known_buttons, online, notified, exc,
                   lastAvail, pressVars, uidVars>>

DeviceDisappears ==
    /\ \E rec \in devices : devices' = devices \ {rec}
    /\ UNCHANGED <<phase, listeners, entities, known_buttons, online, notified, exc,
                   lastAvail, pressVars, uidVars>>

\* a record the callback's signature does not allow for
MalformedDeviceAppears ==
    /\ \E rec \in MalformedRecords \ devices : devices' = devices \cup {rec}
    /\ UNCHANGED <<phase, listeners, entities, known_buttons, online, notified, exc,
                   lastAvail, pressVars, uidVars>>

----------------------------------------------------------------------------
(* Availability: HuaweiButton.available *)

\* coordinator.is_router_online(device_mac)
is_router_online(device_mac) == device_mac \in online

\* the bound address not passed on
available_primary(e) == is_router_online(None)

available(e) == is_router_online(entities[e].device_mac)

\* the host reads the available property of a registered entity
AvailableQuery ==
    /\ \E e \in 1..Len(entities) : lastAvail' = <<e, available(e)>>
    /\ UNCHANGED <<discoveryVars, online, pressVars, uidVars>>

\* the coordinator's determination for one address flips
StatusFlip ==
    /\ \E a \in MACS \cup {None} :
          online' = IF a \in online THEN online \ {a} ELSE online \cup {a}
    /\ UNCHANGED <<discoveryVars, lastAvail, pressVars, uidVars>>

----------------------------------------------------------------------------
(* Pressing: HuaweiButton.press and HuaweiButton.async_press *)

\* the arguments async_press gives coordinator.execute_action
ExecuteActionArgs(e) == <<entities[e].action_name, entities[e].device_mac>>

\* the coroutine's exception swallowed
FutureResult_swallow(outcome) == "returned"

\* Future.result(): returns the coroutine's result or raises its exception
FutureResult(outcome) == IF outcome = "raised" THEN "raised" ELSE "returned"

\* press(): run_coroutine_threadsafe hands async_press to the loop; the caller blocks
press_submit ==
    /\ pressPc \in {"idle", "returned", "raised"}
    /\ \E e \in 1..Len(entities) : pressEntity' = e
    /\ pressPc' = "blocked"
    /\ execCalls' = <<>>
    /\ UNCHANGED <<discoveryVars, online, lastAvail, uidVars>>

\* the loop runs async_press up to its await of coordinator.execute_action
async_press ==
    /\ pressPc = "blocked"
    /\ execCalls' = Append(execCalls,
                           [args |-> ExecuteActionArgs(pressEntity), outcome |-> "pending"])
    /\ pressPc' = "executing"
    /\ UNCHANGED <<discoveryVars, online, lastAvail, pressEntity, uidVars>>

\* the awaited call ends and with it the coroutine
execute_action_completes ==
    /\ pressPc = "executing"
    /\ execCalls' = [execCalls EXCEPT ![Len(execCalls)].outcome = "done"]
    /\ pressPc' = "finished"
    /\ UNCHANGED <<discoveryVars, online, lastAvail, pressEntity, uidVars>>

execute_action_raises ==
    /\ pressPc = "executing"
    /\ execCalls' = [execCalls EXCEPT ![Len(execCalls)].outcome = "raised"]
    /\ pressPc' = "finished"
    /\ UNCHANGED <<discoveryVars, online, lastAvail, pressEntity, uidVars>>

\* the blocked caller of press() is released with the future's result
press_result ==
    /\ pressPc = "finished"
    /\ pressPc' = FutureResult(execCalls[Len(execCalls)].outcome)
    /\ UNCHANGED <<discoveryVars, online, lastAvail, pressEntity, execCalls, uidVars>>

----------------------------------------------------------------------------
(* Unique identifiers: _generate_button_unique_id *)

\* strings are sequences of tokens; the tokens of Alphabet are single characters
Alphabet == {"A", "a", "1"}

Strings(n) == UNION {[1..k -> Alphabet] : k \in 0..n}

NoneStr == <<None>>

_FUNCTION_UID_REBOOT == <<"button_reboot">>

\* str.lower() of one character
LowerChar(c) == IF c = "A" THEN "a" ELSE c

\* str.lower()
Lower(s) == [i \in 1..Len(s) |-> LowerChar(s[i])]

\* not device_mac
Falsy(s) == s = NoneStr \/ s = <<>>

\* the suffix not lowercased
_generate_button_unique_id_nolower(coord, button_function_id, device_mac) ==
    LET prefix == coord.unique_id
        suffix == IF device_mac = NoneStr \/ device_mac = <<>>
                  THEN coord.serial_number ELSE device_mac
    IN prefix \o <<"_">> \o button_function_id \o <<"_">> \o suffix

\* coord: [unique_id, serial_number] stands for coordinator.unique_id and
\* coordinator.get_router_info().serial_number
_generate_button_unique_id(coord, button_function_id, device_mac) ==
    LET prefix == coord.unique_id
        suffix == IF Falsy(device_mac) THEN coord.serial_number ELSE device_mac
    IN prefix \o <<"_">> \o button_function_id \o <<"_">> \o Lower(suffix)

\* HuaweiRebootButton.__init__, the _attr_unique_id it sets
RebootButtonUniqueId(coord, device) ==
    _generate_button_unique_id(coord, _FUNCTION_UID_REBOOT,
                               IF device # NoRouter THEN device.mac ELSE NoneStr)

UniqueIds == {<<"H", "w">>, <<"h", "w", "2">>}

UidInputs ==
    [coord : [unique_id : UniqueIds, serial_number : Strings(MaxLen) \ {<<>>}],
     device : {NoRouter} \cup {ConnectedDevice(m) : m \in Strings(MaxLen)}]

NewRebootButton ==
    /\ uidOut = <<>>
    /\ uidOut' = RebootButtonUniqueId(uidIn.coord, uidIn.device)
    /\ UNCHANGED <<discoveryVars, online, lastAvail, pressVars, uidIn>>

----------------------------------------------------------------------------
(* Specifications *)

InitProgram ==
    /\ phase = "new"
    /\ listeners = {}
    /\ entities = <<>>
    /\ known_buttons = EmptyDict
    /\ devices = {}
    /\ online = {}
    /\ notified = FALSE
    /\ exc = None
    /\ lastAvail = <<0, FALSE>>
    /\ pressPc = "idle"
    /\ pressEntity = 0
    /\ execCalls = <<>>

Init ==
    /\ InitProgram
    /\ uidIn = [coord |-> [unique_id |-> <<"H", "w">>, serial_number |-> <<"A">>],
                device |-> NoRouter]
    /\ uidOut = <<>>

InitUid ==
    /\ InitProgram
    /\ uidIn \in UidInputs
    /\ uidOut = <<>>

\* setup, discovery, unload and availability, the host's registration succeeding
Next ==
    \/ async_setup_entry
    \/ Unload
    \/ CoordinatorUpdate
    \/ DeviceAppears
    \/ DeviceDisappears
    \/ StatusFlip
    \/ AvailableQuery

Spec == Init /\ [][Next]_vars

\* the same lifecycle with presses
NextPress ==
    \/ async_setup_entry
    \/ Unload
    \/ CoordinatorUpdate
    \/ DeviceAppears
    \/ DeviceDisappears
    \/ press_submit
    \/ async_press
    \/ execute_action_completes
    \/ execute_action_raises
    \/ press_result

SpecPress == Init /\ [][NextPress]_vars

\* the lifecycle with the host's async_add_entities allowed to raise
NextFail ==
    \/ async_setup_entry
    \/ async_setup_entry_raises
    \/ Unload
    \/ CoordinatorUpdate
    \/ CoordinatorUpdateRaising
    \/ DeviceAppears
    \/ DeviceDisappears

SpecFail == Init /\ [][NextFail]_vars

\* the lifecycle with records outside the callback's signature
NextMalformed ==
    \/ async_setup_entry
    \/ Unload
    \/ CoordinatorUpdate
    \/ DeviceAppears
    \/ DeviceDisappears
    \/ MalformedDeviceAppears

SpecMalformed == Init /\ [][NextMalformed]_vars

\* _generate_button_unique_id over its inputs
NextUid == NewRebootButton

SpecUid == InitUid /\ [][NextUid]_vars

----------------------------------------------------------------------------
(* Properties *)

ListenerRegistered == "coordinator_updated" \in listeners

\* a notification that reaches coordinator_updated
WatcherStep == ListenerRegistered /\ notified' # notified

PrimaryButton == [action_name |-> "reboot", device_mac |-> None]

\* the entities registered by the step, as indices of entities'
NewEntities == (Len(entities) + 1)..Len(entities')

Unknown == {rec \in devices : rec[1] \notin DOMAIN known_buttons}

\* C1: one invocation of the Discovery Watcher registers exactly one new entity
\* bound to A for every device address A not yet in known_buttons, records A, and
\* registers nothing else; an invocation that finds every device already recorded
\* (a second one with the same device set) registers nothing.
C1_OneEntityPerNewDevice ==
    [][WatcherStep =>
         /\ \A rec \in Unknown :
               /\ Cardinality({i \in NewEntities : entities'[i].device_mac = rec[1]}) = 1
               /\ rec[1] \in DOMAIN known_buttons'
         /\ Len(entities') = Len(entities) + Cardinality(Unknown)
         /\ \A i \in 1..Len(entities) : entities'[i] = entities[i]
         /\ (Unknown = {} => entities' = entities /\ known_buttons' = known_buttons)
         /\ \A rec \in devices : rec[1] \in DOMAIN known_buttons']_vars

W_C1 ==
    /\ phase = "loaded"
    /\ devices = WellFormedRecords
    /\ DOMAIN known_buttons = MACS
    /\ Len(entities) = 1 + Cardinality(MACS)
    /\ notified = FALSE

\* C2: no two registered entities have the same action and the same bound address,
\* the primary router's (no address) included.
C2_AtMostOneEntityPerAddress ==
    \A i, j \in 1..Len(entities) :
        (entities[i].device_mac = entities[j].device_mac
            /\ entities[i].action_name = entities[j].action_name) => i = j

W_C2 ==
    /\ Len(entities) >= 3
    /\ devices = {}
    /\ notified = TRUE

\* C3: setup registers exactly the primary router's entity, whatever the devices the
\* coordinator knows; a registered listener implies the primary entity is registered;
\* and after setup the entities change only in a coordinator update notification.
C3_SetupRegistersPrimaryOnly ==
    [][/\ (phase = "new" /\ phase' = "loaded")
            => (entities' = <<PrimaryButton>> /\ "coordinator_updated" \in listeners')
       /\ ("coordinator_updated" \in listeners')
            => (Len(entities') >= 1 /\ entities'[1] = PrimaryButton)
       /\ (phase # "new" /\ notified' = notified) => entities' = entities]_vars

W_C3 ==
    /\ phase = "loaded"
    /\ Cardinality(devices) >= 2
    /\ entities = <<PrimaryButton>>

\* C4: while the entry is loaded the listener is registered and every notification
\* runs the watcher over all devices; unloading removes the listener, and once
\* unloaded no step changes the entities or known_buttons.
C4_ListenerScopedToEntry ==
    [][/\ (phase = "loaded") => ListenerRegistered
       /\ WatcherStep => \A rec \in devices : rec[1] \in DOMAIN known_buttons'
       /\ (phase' = "unloaded") => listeners' = {}
       /\ (phase = "unloaded")
            => (entities' = entities /\ known_buttons' = known_buttons)]_vars

W_C4 ==
    /\ phase = "unloaded"
    /\ Unknown # {}
    /\ known_buttons # EmptyDict
    /\ notified = TRUE

\* C5: when press() has returned or raised, exactly one execute_action call was made
\* for it, with the reboot action and the entity's bound address, that call has
\* ended, and press() raised exactly when the call raised.
C5_PressCallsExecuteOnce ==
    pressPc \in {"returned", "raised"} =>
        /\ Len(execCalls) = 1
        /\ execCalls[1].args = <<"reboot", entities[pressEntity].device_mac>>
        /\ execCalls[1].outcome = (IF pressPc = "raised" THEN "raised" ELSE "done")

W_C5 ==
    /\ pressPc = "raised"
    /\ entities[pressEntity].device_mac \in MACS

\* C6: every availability query returns the coordinator's determination, at the
\* time of the query, for the address the queried entity is bound to.
C6_AvailabilityMirrorsCoordinator ==
    [][lastAvail' # lastAvail =>
         lastAvail'[2] = (entities[lastAvail'[1]].device_mac \in online)]_vars

W_C6 ==
    /\ lastAvail[1] >= 2
    /\ lastAvail[2] = TRUE
    /\ None \notin online

\* C7: a watcher invocation in which every record handed over is absent or malformed
\* registers no entity and leaves known_buttons unchanged.
C7_MalformedRecordsSkipped ==
    [][(WatcherStep /\ devices # {} /\ \A rec \in devices : ~WellFormed(rec))
         => (entities' = entities /\ known_buttons' = known_buttons)]_vars

\* t is s lowercased
Lowercased(s, t) ==
    /\ Len(t) = Len(s)
    /\ \A i \in 1..Len(s) : t[i] = (IF s[i] = "A" THEN "a" ELSE s[i])

\* C8: the unique id is unique_id, "_", "button_reboot", "_" and then the serial
\* number lowercased for the primary router, the address lowercased for a device
\* with an address.
C8_UniqueIdFormat ==
    (uidOut # <<>> /\ (uidIn.device = NoRouter \/ uidIn.device.mac # <<>>)) =>
        LET prefix == uidIn.coord.unique_id
            key == IF uidIn.device = NoRouter
                   THEN uidIn.coord.serial_number ELSE uidIn.device.mac
            n == Len(prefix)
        IN /\ Len(uidOut) = n + 3 + Len(key)
           /\ SubSeq(uidOut, 1, n) = prefix
           /\ SubSeq(uidOut, n + 1, n + 3) = <<"_", "button_reboot", "_">>
           /\ Lowercased(key, SubSeq(uidOut, n + 4, Len(uidOut)))

W_C8 ==
    /\ uidOut # <<>>
    /\ uidIn.device # NoRouter
    /\ Len(uidIn.device.mac) = MaxLen
    /\ \E i \in 1..MaxLen : uidIn.device.mac[i] = "A"

\* C9: no step removes or replaces an entry of known_buttons, and no step changes
\* the action or the bound address of a registered entity.
C9_RegistryMonotonic ==
    [][/\ \A m \in DOMAIN known_buttons :
             m \in DOMAIN known_buttons' /\ known_buttons'[m] = known_buttons[m]
       /\ \A i \in 1..Len(entities) :
             i <= Len(entities') /\ entities'[i] = entities[i]]_vars

W_C9 ==
    /\ Cardinality(DOMAIN known_buttons) >= 2
    /\ devices = {}
    /\ online = {}
    /\ notified = FALSE

\* C10: every entry of known_buttons keyed by M is a registered entity bound to M;
\* an address whose registration raised is not in known_buttons; and a later
\* notification that hands that address over without raising registers it.
C10_RecordedAfterRegistered ==
    [][/\ \A m \in DOMAIN known_buttons' :
             /\ known_buttons'[m] \in 1..Len(entities')
             /\ entities'[known_buttons'[m]].device_mac = m
       /\ (exc' # None) => exc' \notin DOMAIN known_buttons'
       /\ (WatcherStep /\ exc # None /\ exc' = None /\ exc \in {rec[1] : rec \in devices})
            => (/\ exc \in DOMAIN known_buttons'
                /\ \E i \in NewEntities : entities'[i].device_mac = exc)]_vars

W_C10 ==
    /\ exc # None
    /\ phase = "loaded"
    /\ known_buttons # EmptyDict
    /\ exc \in {rec[1] : rec \in devices}

====
